---------------------------- MODULE Spec2Model ----------------------------
(***************************************************************************)
(* Event path validity (src/app/ember_coupling/EventPathValidity.mixin.h). *)
(*                                                                         *)
(* HasValidEventPathForEndpoint decides whether an event path with a       *)
(* concrete endpoint and a concrete-or-wildcard cluster and event names at *)
(* least one existing event the subject may read.  The resolver is modelled*)
(* step by step: one action per entry, loop iteration and access-control   *)
(* Check, so that the order and number of the Checks is part of the state. *)
(*                                                                         *)
(* The data-model registry (emAfEndpoints) and the build flag              *)
(* CHIP_CONFIG_ENABLE_EVENTLIST_ATTRIBUTE are fixed at Init.  The access-  *)
(* control policy is fixed too, but it is an external collaborator: its    *)
(* answer to a request is drawn when the request is first made and         *)
(* recorded in granted/denied, and every later Check of the same request   *)
(* gets the recorded answer.                                               *)
(***************************************************************************)
EXTENDS Integers, Sequences, FiniteSets

\* ------------------------------------------------------------------ bounds
\* Clusters declared on one endpoint type.
MaxClusters == 2
\* Events declared by the clusters of one endpoint type, all together.
MaxEvents == 3

\* Endpoint ids a path may name, and those the device may have an endpoint at.
EndpointIds == {1, 2}
ConfiguredEndpointIds == {1}
ClusterIds == {6, 8}
EventIds == {0, 1, 2}
\* S2 is a subject the access-control policy grants everything it grants S1.
Subjects == {"S1", "S2"}

\* --------------------------------------------------- collaborators' values
\* The wildcard ids: 0xFFFFFFFF, all bits set, as a 32-bit integer.
kInvalidClusterId == -1
kInvalidEventId == -1
NULL == 0

CLUSTER_MASK_SERVER == "server"
CLUSTER_MASK_CLIENT == "client"

kEventReadRequest == "kEventReadRequest"
kView == <<"kView">>
CHIP_NO_ERROR == "CHIP_NO_ERROR"
CHIP_ERROR_ACCESS_DENIED == "CHIP_ERROR_ACCESS_DENIED"

VARIABLES
    CHIP_CONFIG_ENABLE_EVENTLIST_ATTRIBUTE, \* build flag: event lists present
    emAfEndpoints,       \* registry: registered endpoint id -> endpoint type
    granted,             \* <<subject, request>> the policy has granted
    denied,              \* <<subject, request>> the policy has denied
    pc,                  \* position of the resolver
    aEndpoint,           \* argument: the concrete endpoint
    aEventPath,          \* argument: [mClusterId, mEventId], maybe wildcard
    aSubjectDescriptor,  \* argument: the subject
    cluster,             \* index of the cluster in hand (idx / found pointer)
    idx,                 \* index into the cluster's event list
    calls,               \* the Checks issued by this resolution, in order
    visited,             \* the clusters handed to the cluster-level helper
    result,              \* the returned boolean (meaningful at pc = "done")
    previous             \* <<result of the same query for S1>>, else <<>>

vars == <<CHIP_CONFIG_ENABLE_EVENTLIST_ATTRIBUTE, emAfEndpoints, granted,
          denied, pc, aEndpoint, aEventPath, aSubjectDescriptor, cluster,
          idx, calls, visited, result, previous>>

\* ------------------------------------------------------------ the registry
Injective(s) == \A i, j \in 1..Len(s) : s[i] = s[j] => i = j

SeqsUpTo(S, n) == UNION {[1..k -> S] : k \in 0..n}

\* An event list names each of its events once.
EventLists == {l \in SeqsUpTo(EventIds, MaxEvents) : Injective(l)}

\* EmberAfCluster: events are server-originated, a client-side instance
\* declares none.
EmberAfCluster ==
    [clusterId : ClusterIds, mask : {CLUSTER_MASK_SERVER}, eventList : EventLists]
    \cup
    [clusterId : ClusterIds, mask : {CLUSTER_MASK_CLIENT}, eventList : {<<>>}]

RECURSIVE EventTotal(_)
EventTotal(cs) ==
    IF cs = <<>> THEN 0 ELSE Len(Head(cs).eventList) + EventTotal(Tail(cs))

\* EmberAfEndpointType: the cluster array of an endpoint; a cluster id occurs
\* at most once per side.
EmberAfEndpointType ==
    {cs \in SeqsUpTo(EmberAfCluster, MaxClusters) :
        /\ \A i, j \in 1..Len(cs) :
              (cs[i].clusterId = cs[j].clusterId /\ cs[i].mask = cs[j].mask) => i = j
        /\ EventTotal(cs) <= MaxEvents}

EventPathParams ==
    [mClusterId : ClusterIds \cup {kInvalidClusterId},
     mEventId : EventIds \cup {kInvalidEventId}]

HasWildcardClusterId(p) == p.mClusterId = kInvalidClusterId
HasWildcardEventId(p) == p.mEventId = kInvalidEventId

\* The registries: each registered endpoint has an endpoint type.
Registries ==
    UNION {[D -> [cluster : EmberAfEndpointType]] : D \in SUBSET ConfiguredEndpointIds}

\* Pointer to the endpoint type of a registered endpoint (its id), else NULL.
emberAfFindEndpointType(endpoint) ==
    IF endpoint \in DOMAIN emAfEndpoints THEN endpoint ELSE NULL

clusterCount(endpointType) == Len(emAfEndpoints[endpointType].cluster)

\* Pointer (index into the endpoint's cluster array) to the first server-side
\* cluster with this id, NULL if the endpoint or the cluster is absent.
emberAfFindServerCluster(endpoint, clusterId) ==
    IF endpoint \notin DOMAIN emAfEndpoints THEN NULL
    ELSE LET type == emAfEndpoints[endpoint].cluster
             found == {i \in 1..Len(type) :
                          /\ type[i].clusterId = clusterId
                          /\ type[i].mask = CLUSTER_MASK_SERVER}
         IN IF found = {} THEN NULL
            ELSE CHOOSE i \in found : \A j \in found : i <= j

\* The cluster a pointer designates, on the endpoint being resolved.
Deref(endpoint, aCluster) == emAfEndpoints[endpoint].cluster[aCluster]

\* ---------------------------------------------------------- access control
\* RequiredPrivilege::ForReadEvent: a function of the event's definition,
\* owned by the collaborator; kept as the term itself.
ForReadEvent(aPath) == <<"ForReadEvent", aPath.mClusterId, aPath.mEventId>>

ConcreteEventPath(endpoint, clusterId, eventId) ==
    [mEndpointId |-> endpoint, mClusterId |-> clusterId, mEventId |-> eventId]

ConcreteClusterPath(endpoint, clusterId) ==
    [mEndpointId |-> endpoint, mClusterId |-> clusterId]

\* The request CanAccessEvent(subject, ConcreteClusterPath, privilege) makes:
\* entityId is left unset.
ClusterRequest(aPath, aNeededPrivilege) ==
    [requestPath |-> [cluster |-> aPath.mClusterId,
                      endpoint |-> aPath.mEndpointId,
                      requestType |-> kEventReadRequest,
                      entityId |-> <<>>],
     privilege |-> aNeededPrivilege]

\* EventRequest asking for the fixed View privilege of the cluster form.
EventRequest_AtView(aPath) ==
    [requestPath |-> [cluster |-> aPath.mClusterId,
                      endpoint |-> aPath.mEndpointId,
                      requestType |-> kEventReadRequest,
                      entityId |-> <<aPath.mEventId>>],
     privilege |-> kView]

\* The request CanAccessEvent(subject, ConcreteEventPath) makes.
EventRequest(aPath) ==
    [requestPath |-> [cluster |-> aPath.mClusterId,
                      endpoint |-> aPath.mEndpointId,
                      requestType |-> kEventReadRequest,
                      entityId |-> <<aPath.mEventId>>],
     privilege |-> ForReadEvent(aPath)]

\* AccessControl::Check: the errors the policy can answer a request with.  An
\* answered request keeps its answer; S2 is granted whatever S1 is granted.
Check(subject, request) ==
    IF <<subject, request>> \in granted THEN {CHIP_NO_ERROR}
    ELSE IF <<subject, request>> \in denied THEN {CHIP_ERROR_ACCESS_DENIED}
    ELSE IF subject = "S2" /\ <<"S1", request>> \in granted THEN {CHIP_NO_ERROR}
    ELSE IF subject = "S1" /\ <<"S2", request>> \in denied
         THEN {CHIP_ERROR_ACCESS_DENIED}
    ELSE {CHIP_NO_ERROR, CHIP_ERROR_ACCESS_DENIED}

\* CanAccessEvent with the comparison inverted.
CanAccessEvent_Inverted(err) == err # CHIP_NO_ERROR

\* CanAccessEvent's return value for the error Check gave.
CanAccessEvent(err) == err = CHIP_NO_ERROR

\* ------------------------------------------------------------ the resolver
\* ClusterSupportsEvent whose scan stops one entry short.
ClusterSupportsEvent_OffByOne(aCluster, eventId) ==
    IF CHIP_CONFIG_ENABLE_EVENTLIST_ATTRIBUTE
    THEN \E i \in 1..(Len(aCluster.eventList) - 1) : aCluster.eventList[i] = eventId
    ELSE TRUE

\* ClusterSupportsEvent claiming every event supported in either build.
ClusterSupportsEvent_Always(aCluster, eventId) == TRUE

\* Does the cluster's metadata report the event?  Without event lists there
\* is no way to tell: supported.
ClusterSupportsEvent(aCluster, eventId) ==
    IF CHIP_CONFIG_ENABLE_EVENTLIST_ATTRIBUTE
    THEN \E i \in 1..Len(aCluster.eventList) : aCluster.eventList[i] = eventId
    ELSE TRUE

Init ==
    /\ CHIP_CONFIG_ENABLE_EVENTLIST_ATTRIBUTE \in BOOLEAN
    /\ emAfEndpoints \in Registries
    /\ granted = {}
    /\ denied = {}
    /\ pc = "idle"
    /\ aEndpoint = NULL
    /\ aEventPath = [mClusterId |-> kInvalidClusterId, mEventId |-> kInvalidEventId]
    /\ aSubjectDescriptor = "S1"
    /\ cluster = NULL
    /\ idx = 0
    /\ calls = <<>>
    /\ visited = <<>>
    /\ result = FALSE
    /\ previous = <<>>

registry == <<CHIP_CONFIG_ENABLE_EVENTLIST_ATTRIBUTE, emAfEndpoints>>
args == <<aEndpoint, aEventPath, aSubjectDescriptor>>
policy == <<granted, denied>>

\* The read handler asks about one path of one endpoint for subject S1.
Call(endpoint, path) ==
    /\ pc = "idle"
    /\ aEndpoint' = endpoint
    /\ aEventPath' = path
    /\ aSubjectDescriptor' = "S1"
    /\ pc' = "HasValidEventPathForEndpoint"
    /\ UNCHANGED <<registry, policy, cluster, idx, calls, visited, result, previous>>

\* The same question is asked again for S2, a subject of wider privilege.
CallWider ==
    /\ pc = "done"
    /\ aSubjectDescriptor = "S1"
    /\ aSubjectDescriptor' = "S2"
    /\ previous' = <<result>>
    /\ pc' = "HasValidEventPathForEndpoint"
    /\ cluster' = NULL
    /\ idx' = 0
    /\ calls' = <<>>
    /\ visited' = <<>>
    /\ result' = FALSE
    /\ UNCHANGED <<registry, policy, aEndpoint, aEventPath>>

\* return from HasValidEventPathForEndpoint
Return(value) ==
    /\ pc' = "done"
    /\ result' = value

\* EndpointEntry returning true for a wildcard cluster id on an absent endpoint.
EndpointEntry_AbsentIsValid ==
    /\ pc = "HasValidEventPathForEndpoint"
    /\ IF HasWildcardClusterId(aEventPath)
       THEN IF emberAfFindEndpointType(aEndpoint) = NULL
            THEN Return(TRUE) /\ UNCHANGED cluster
            ELSE pc' = "clusterLoop" /\ cluster' = 1 /\ UNCHANGED result
       ELSE LET found == emberAfFindServerCluster(aEndpoint, aEventPath.mClusterId) IN
            IF found = NULL
            THEN Return(FALSE) /\ UNCHANGED cluster
            ELSE pc' = "HasValidEventPathForEndpointAndCluster"
                 /\ cluster' = found /\ UNCHANGED result
    /\ UNCHANGED <<registry, policy, args, idx, calls, visited, previous>>

\* Entry of HasValidEventPathForEndpoint: the wildcard-cluster lookup of the
\* endpoint type, or the concrete lookup of the server cluster.
EndpointEntry ==
    /\ pc = "HasValidEventPathForEndpoint"
    /\ IF HasWildcardClusterId(aEventPath)
       THEN IF emberAfFindEndpointType(aEndpoint) = NULL
            THEN Return(FALSE) /\ UNCHANGED cluster
            ELSE pc' = "clusterLoop" /\ cluster' = 1 /\ UNCHANGED result
       ELSE LET found == emberAfFindServerCluster(aEndpoint, aEventPath.mClusterId) IN
            IF found = NULL
            THEN Return(FALSE) /\ UNCHANGED cluster
            ELSE pc' = "HasValidEventPathForEndpointAndCluster"
                 /\ cluster' = found /\ UNCHANGED result
    /\ UNCHANGED <<registry, policy, args, idx, calls, visited, previous>>

\* Head of the loop over the endpoint type's clusters.
ClusterLoop ==
    /\ pc = "clusterLoop"
    /\ IF cluster <= clusterCount(aEndpoint)
       THEN pc' = "HasValidEventPathForEndpointAndCluster" /\ UNCHANGED result
       ELSE Return(FALSE)
    /\ UNCHANGED <<registry, policy, args, cluster, idx, calls, visited, previous>>

\* HasValidEventPathForEndpointAndCluster returns value to its caller: the
\* loop over the clusters goes on unless the value is true, the concrete
\* lookup returns it.
ReturnFromCluster(value) ==
    IF HasWildcardClusterId(aEventPath) /\ ~value
    THEN pc' = "clusterLoop" /\ cluster' = cluster + 1 /\ UNCHANGED result
    ELSE Return(value) /\ UNCHANGED cluster

\* ClusterEntry expanding a wildcard event id over the event list in either
\* build.
ClusterEntry_IgnoresFlag ==
    /\ pc = "HasValidEventPathForEndpointAndCluster"
    /\ visited' = Append(visited, cluster)
    /\ IF HasWildcardEventId(aEventPath)
       THEN pc' = "eventLoop" /\ idx' = 1 /\ UNCHANGED <<cluster, result>>
       ELSE IF ~ClusterSupportsEvent(Deref(aEndpoint, cluster), aEventPath.mEventId)
            THEN ReturnFromCluster(FALSE) /\ UNCHANGED idx
            ELSE pc' = "preciseCheck" /\ UNCHANGED <<cluster, idx, result>>
    /\ UNCHANGED <<registry, policy, args, calls, previous>>

\* ClusterEntry returning true for an event the cluster does not support.
ClusterEntry_AbsentEventValid ==
    /\ pc = "HasValidEventPathForEndpointAndCluster"
    /\ visited' = Append(visited, cluster)
    /\ IF HasWildcardEventId(aEventPath)
       THEN IF CHIP_CONFIG_ENABLE_EVENTLIST_ATTRIBUTE
            THEN pc' = "eventLoop" /\ idx' = 1 /\ UNCHANGED <<cluster, result>>
            ELSE pc' = "coarseCheck" /\ UNCHANGED <<cluster, idx, result>>
       ELSE IF ~ClusterSupportsEvent(Deref(aEndpoint, cluster), aEventPath.mEventId)
            THEN ReturnFromCluster(TRUE) /\ UNCHANGED idx
            ELSE pc' = "preciseCheck" /\ UNCHANGED <<cluster, idx, result>>
    /\ UNCHANGED <<registry, policy, args, calls, previous>>

\* Entry of HasValidEventPathForEndpointAndCluster, up to its first Check.
ClusterEntry ==
    /\ pc = "HasValidEventPathForEndpointAndCluster"
    /\ visited' = Append(visited, cluster)
    /\ IF HasWildcardEventId(aEventPath)
       THEN IF CHIP_CONFIG_ENABLE_EVENTLIST_ATTRIBUTE
            THEN pc' = "eventLoop" /\ idx' = 1 /\ UNCHANGED <<cluster, result>>
            ELSE pc' = "coarseCheck" /\ UNCHANGED <<cluster, idx, result>>
       ELSE IF ~ClusterSupportsEvent(Deref(aEndpoint, cluster), aEventPath.mEventId)
            THEN ReturnFromCluster(FALSE) /\ UNCHANGED idx
            ELSE pc' = "preciseCheck" /\ UNCHANGED <<cluster, idx, result>>
    /\ UNCHANGED <<registry, policy, args, calls, previous>>

\* One Check: the policy answers, the answer is recorded.
Issue(request, err) ==
    /\ err \in Check(aSubjectDescriptor, request)
    /\ calls' = Append(calls, [request |-> request, err |-> err])
    /\ IF err = CHIP_NO_ERROR
       THEN granted' = granted \cup {<<aSubjectDescriptor, request>>}
            /\ UNCHANGED denied
       ELSE denied' = denied \cup {<<aSubjectDescriptor, request>>}
            /\ UNCHANGED granted

\* EventLoop falling back to the cluster-level Check once the events are
\* exhausted.
EventLoop_FallsBack ==
    /\ pc = "eventLoop"
    /\ LET aCluster == Deref(aEndpoint, cluster) IN
       IF idx <= Len(aCluster.eventList)
       THEN LET path == ConcreteEventPath(aEndpoint, aCluster.clusterId,
                                          aCluster.eventList[idx])
            IN \E err \in {CHIP_NO_ERROR, CHIP_ERROR_ACCESS_DENIED} :
                 /\ Issue(EventRequest(path), err)
                 /\ IF CanAccessEvent(err)
                    THEN ReturnFromCluster(TRUE) /\ UNCHANGED idx
                    ELSE pc' = "eventLoop" /\ idx' = idx + 1
                         /\ UNCHANGED <<cluster, result>>
       ELSE pc' = "coarseCheck" /\ UNCHANGED <<cluster, result, idx, policy, calls>>
    /\ UNCHANGED <<registry, args, visited, previous>>

\* EventLoop walking the event list from its end.
EventLoop_Reversed ==
    /\ pc = "eventLoop"
    /\ LET aCluster == Deref(aEndpoint, cluster) IN
       IF idx <= Len(aCluster.eventList)
       THEN LET path == ConcreteEventPath(
                            aEndpoint, aCluster.clusterId,
                            aCluster.eventList[Len(aCluster.eventList) + 1 - idx])
            IN \E err \in {CHIP_NO_ERROR, CHIP_ERROR_ACCESS_DENIED} :
                 /\ Issue(EventRequest(path), err)
                 /\ IF CanAccessEvent(err)
                    THEN ReturnFromCluster(TRUE) /\ UNCHANGED idx
                    ELSE pc' = "eventLoop" /\ idx' = idx + 1
                         /\ UNCHANGED <<cluster, result>>
       ELSE ReturnFromCluster(FALSE) /\ UNCHANGED <<idx, policy, calls>>
    /\ UNCHANGED <<registry, args, visited, previous>>

\* One iteration of the loop over the cluster's declared events.
EventLoop ==
    /\ pc = "eventLoop"
    /\ LET aCluster == Deref(aEndpoint, cluster) IN
       IF idx <= Len(aCluster.eventList)
       THEN LET path == ConcreteEventPath(aEndpoint, aCluster.clusterId,
                                          aCluster.eventList[idx])
            IN \E err \in {CHIP_NO_ERROR, CHIP_ERROR_ACCESS_DENIED} :
                 /\ Issue(EventRequest(path), err)
                 /\ IF CanAccessEvent(err)
                    THEN ReturnFromCluster(TRUE) /\ UNCHANGED idx
                    ELSE pc' = "eventLoop" /\ idx' = idx + 1
                         /\ UNCHANGED <<cluster, result>>
       ELSE ReturnFromCluster(FALSE) /\ UNCHANGED <<idx, policy, calls>>
    /\ UNCHANGED <<registry, args, visited, previous>>

\* Without event lists: one Check of the cluster at View.
CoarseCheck ==
    /\ pc = "coarseCheck"
    /\ LET clusterPath == ConcreteClusterPath(aEndpoint,
                                              Deref(aEndpoint, cluster).clusterId)
       IN \E err \in {CHIP_NO_ERROR, CHIP_ERROR_ACCESS_DENIED} :
            /\ Issue(ClusterRequest(clusterPath, kView), err)
            /\ ReturnFromCluster(CanAccessEvent(err))
    /\ UNCHANGED <<registry, args, idx, visited, previous>>

\* A concrete event the cluster supports: one Check of that event.
PreciseCheck ==
    /\ pc = "preciseCheck"
    /\ LET path == ConcreteEventPath(aEndpoint, Deref(aEndpoint, cluster).clusterId,
                                     aEventPath.mEventId)
       IN \E err \in {CHIP_NO_ERROR, CHIP_ERROR_ACCESS_DENIED} :
            /\ Issue(EventRequest(path), err)
            /\ ReturnFromCluster(CanAccessEvent(err))
    /\ UNCHANGED <<registry, args, idx, visited, previous>>

Next ==
    \/ \E endpoint \in EndpointIds, path \in EventPathParams : Call(endpoint, path)
    \/ CallWider
    \/ EndpointEntry
    \/ ClusterLoop
    \/ ClusterEntry
    \/ EventLoop
    \/ CoarseCheck
    \/ PreciseCheck

Spec == Init /\ [][Next]_vars


\* ------------------------------------------------- the resolver's result
\* What the policy is known to grant: the requests it has granted, and for S2
\* those it has granted S1.  A request it has not granted counts as denied.
Permits(subject, request) ==
    \/ <<subject, request>> \in granted
    \/ subject = "S2" /\ <<"S1", request>> \in granted

\* The value HasValidEventPathForEndpointAndCluster returns for a cluster.
ResultForEndpointAndCluster(endpoint, aCluster, path, subject) ==
    IF HasWildcardEventId(path)
    THEN IF CHIP_CONFIG_ENABLE_EVENTLIST_ATTRIBUTE
         THEN \E i \in 1..Len(aCluster.eventList) :
                 Permits(subject, EventRequest(ConcreteEventPath(
                     endpoint, aCluster.clusterId, aCluster.eventList[i])))
         ELSE Permits(subject, ClusterRequest(
                  ConcreteClusterPath(endpoint, aCluster.clusterId), kView))
    ELSE /\ ClusterSupportsEvent(aCluster, path.mEventId)
         /\ Permits(subject, EventRequest(ConcreteEventPath(
                endpoint, aCluster.clusterId, path.mEventId)))

\* The value HasValidEventPathForEndpoint returns.
ResultForEndpoint(endpoint, path, subject) ==
    IF HasWildcardClusterId(path)
    THEN /\ emberAfFindEndpointType(endpoint) # NULL
         /\ \E i \in 1..clusterCount(endpoint) :
               ResultForEndpointAndCluster(endpoint, Deref(endpoint, i), path, subject)
    ELSE LET found == emberAfFindServerCluster(endpoint, path.mClusterId) IN
         /\ found # NULL
         /\ ResultForEndpointAndCluster(endpoint, Deref(endpoint, found), path, subject)

\* The step-by-step resolver returns the value ResultForEndpoint gives.
ResolverAgrees ==
    pc = "done" => result = ResultForEndpoint(aEndpoint, aEventPath, aSubjectDescriptor)


\* ------------------------------------------------------------- the claims
Done == pc = "done"
Precise == CHIP_CONFIG_ENABLE_EVENTLIST_ATTRIBUTE
NoError(i) == calls[i].err = CHIP_NO_ERROR
Registered == aEndpoint \in DOMAIN emAfEndpoints
ClustersOf(endpoint) ==
    IF endpoint \in DOMAIN emAfEndpoints THEN emAfEndpoints[endpoint].cluster ELSE <<>>
Declares(aCluster, eventId) ==
    \E i \in 1..Len(aCluster.eventList) : aCluster.eventList[i] = eventId
\* The cluster handed to the i-th call of the cluster-level helper.
Visited(i) == ClustersOf(aEndpoint)[visited[i]]

\* C1: for a concrete cluster id and a concrete event id the resolver returns
\* true if and only if the endpoint has a server cluster with that id, the
\* event is in that cluster's event list (or the build has no event lists),
\* and the Check of the concrete event path at ForReadEvent(path) reports no
\* error: when the path exists exactly that one Check is made and its outcome
\* is the result, and when it does not exist the result is false.
C1_ConcretePathIff ==
    (Done /\ ~HasWildcardClusterId(aEventPath) /\ ~HasWildcardEventId(aEventPath)) =>
        LET servers == {i \in 1..Len(ClustersOf(aEndpoint)) :
                           /\ ClustersOf(aEndpoint)[i].clusterId = aEventPath.mClusterId
                           /\ ClustersOf(aEndpoint)[i].mask = CLUSTER_MASK_SERVER}
            exists == \E i \in servers :
                          ~Precise \/ Declares(ClustersOf(aEndpoint)[i], aEventPath.mEventId)
            request == [requestPath |-> [cluster |-> aEventPath.mClusterId,
                                         endpoint |-> aEndpoint,
                                         requestType |-> kEventReadRequest,
                                         entityId |-> <<aEventPath.mEventId>>],
                        privilege |-> ForReadEvent(ConcreteEventPath(
                            aEndpoint, aEventPath.mClusterId, aEventPath.mEventId))]
        IN IF exists
           THEN /\ Len(calls) = 1
                /\ calls[1].request = request
                /\ result = NoError(1)
                /\ result = (<<aSubjectDescriptor, request>> \in granted)
           ELSE /\ calls = <<>>
                /\ result = FALSE

\* C1's case: a declared event of a server cluster, precise mode, permitted.
C1_Witness ==
    /\ Done /\ Precise /\ result
    /\ ~HasWildcardClusterId(aEventPath) /\ ~HasWildcardEventId(aEventPath)
    /\ Len(ClustersOf(aEndpoint)) = 2

\* C2: the result for a wildcard cluster id is the OR, over the cluster ids,
\* of the result for that cluster id given concretely with the same event
\* specifier.
C2_WildcardClusterIsOrOfConcrete ==
    (Done /\ HasWildcardClusterId(aEventPath)) =>
        (result <=> \E c \in ClusterIds :
                       ResultForEndpoint(aEndpoint,
                                         [aEventPath EXCEPT !.mClusterId = c],
                                         aSubjectDescriptor))

\* C3: without event lists a wildcard event id makes each call of the
\* cluster-level helper issue exactly one Check, of (endpoint, cluster) with
\* the entity unset at privilege View, and return its outcome, whatever
\* events the cluster has.
C3_DegradedWildcardIsCoarse ==
    (~Precise /\ HasWildcardEventId(aEventPath)) =>
        /\ Len(calls) <= Len(visited)
        /\ \A i \in 1..Len(calls) :
              /\ calls[i].request.requestPath.endpoint = aEndpoint
              /\ calls[i].request.requestPath.cluster = Visited(i).clusterId
              /\ calls[i].request.requestPath.entityId = <<>>
              /\ calls[i].request.privilege = kView
        /\ \A i \in 1..(Len(visited) - 1) : i <= Len(calls) /\ ~NoError(i)
        /\ (Done /\ visited # <<>>) =>
              /\ Len(calls) = Len(visited)
              /\ result = NoError(Len(calls))

\* C3's case: the cluster declares events, the one coarse Check passes.
C3_Witness ==
    /\ Done /\ ~Precise /\ HasWildcardEventId(aEventPath) /\ result
    /\ Len(visited) = 1 /\ Len(Visited(1).eventList) = 2

\* C4: with event lists a wildcard event id makes the cluster-level helper
\* return true if and only if a declared event of the cluster passes the
\* per-event Check; a cluster without events yields false and no Check with
\* the entity unset is made.
C4_PreciseWildcardIffSomeEvent ==
    (Precise /\ HasWildcardEventId(aEventPath)) =>
        /\ \A i \in 1..Len(calls) : calls[i].request.requestPath.entityId # <<>>
        /\ \A i \in 1..(Len(visited) - 1) :
              \A j \in 1..Len(Visited(i).eventList) :
                 <<aSubjectDescriptor,
                   EventRequest(ConcreteEventPath(aEndpoint, Visited(i).clusterId,
                                                  Visited(i).eventList[j]))>> \in denied
        /\ (Done /\ visited # <<>>) =>
              LET last == Visited(Len(visited))
                  event(j) == EventRequest(ConcreteEventPath(
                                  aEndpoint, last.clusterId, last.eventList[j]))
              IN /\ result <=> \E j \in 1..Len(last.eventList) :
                                  <<aSubjectDescriptor, event(j)>> \in granted
                 /\ ~result => \A j \in 1..Len(last.eventList) :
                                  <<aSubjectDescriptor, event(j)>> \in denied

\* C4's case: the second declared event passes after the first was denied.
C4_Witness ==
    /\ Done /\ Precise /\ HasWildcardEventId(aEventPath) /\ result
    /\ Len(visited) = 1 /\ Len(calls) = 2

\* C5: for an endpoint that is not registered the resolver returns false,
\* whatever the specifier, the subject and the mode, and issues no Check.
C5_AbsentEndpoint ==
    (pc # "idle" /\ ~Registered) =>
        /\ calls = <<>>
        /\ Done => result = FALSE

\* C5's case: both ids wildcard, the endpoint absent, the call returned.
C5_Witness ==
    /\ Done /\ ~Registered
    /\ HasWildcardClusterId(aEventPath) /\ HasWildcardEventId(aEventPath)

\* C6: a true result for S1 is a true result for S2, to whom the policy grants
\* every request it grants S1, for the same registry, endpoint and specifier.
C6_Monotone ==
    (Done /\ aSubjectDescriptor = "S2" /\ previous = <<TRUE>>) => result = TRUE

\* C6's case: S2 was asked after S1 got true, and S2's resolution made Checks.
C6_Witness ==
    /\ Done /\ aSubjectDescriptor = "S2" /\ previous = <<TRUE>> /\ Len(calls) = 2

\* The Checks of all the events of the clusters vs, in order.
RECURSIVE AllEventRequests(_)
AllEventRequests(vs) ==
    IF vs = <<>> THEN <<>>
    ELSE LET c == ClustersOf(aEndpoint)[Head(vs)] IN
         [j \in 1..Len(c.eventList) |->
             EventRequest(ConcreteEventPath(aEndpoint, c.clusterId, c.eventList[j]))]
         \o AllEventRequests(Tail(vs))

\* C7: no Check is issued after one that passed; with a wildcard cluster id
\* the clusters are visited in declared order; with event lists and a wildcard
\* event id the Checks are those of the visited clusters' events in declared
\* order, each once, up to the first that passes.
C7_OrderAndShortCircuit ==
    /\ \A i \in 1..(Len(calls) - 1) : ~NoError(i)
    /\ (Len(calls) > 0 /\ NoError(Len(calls))) => (Done /\ result)
    /\ HasWildcardClusterId(aEventPath) => \A i \in 1..Len(visited) : visited[i] = i
    /\ (Precise /\ HasWildcardEventId(aEventPath)) =>
          LET expected == AllEventRequests(visited) IN
          /\ Len(calls) <= Len(expected)
          /\ \A i \in 1..Len(calls) : calls[i].request = expected[i]
          /\ (Done /\ ~result) => Len(calls) = Len(expected)

\* C7's case: events [E1 denied, E2 permitted, E3]: two Checks, E1 then E2.
C7_Witness ==
    /\ Done /\ Precise /\ HasWildcardEventId(aEventPath) /\ result
    /\ Len(visited) = 1 /\ Len(Visited(1).eventList) = 3
    /\ Len(calls) = 2 /\ ~NoError(1) /\ NoError(2)

\* C8: for a subject to whom the policy grants no request the resolver returns
\* false, whatever the registry declares.
C8_DeniedSubjectSeesNothing ==
    (Done /\ ~\E r \in granted : r[1] = aSubjectDescriptor) => result = FALSE

\* C8's case: paths exist and were checked, every Check was denied.
C8_Witness ==
    /\ Done /\ ~result /\ Len(calls) = 2
    /\ ~\E r \in granted : r[1] = aSubjectDescriptor

\* C9: with event lists and a concrete event id, a Check is issued only for a
\* visited cluster that declares the event, one per such cluster, and a
\* cluster that does not declare it contributes false.
C9_ExistenceBeforePermission ==
    (Precise /\ ~HasWildcardEventId(aEventPath)) =>
        LET declaring == {i \in 1..Len(visited) : Declares(Visited(i), aEventPath.mEventId)}
            pending == IF pc = "preciseCheck" THEN 1 ELSE 0
        IN /\ Len(calls) = Cardinality(declaring) - pending
           /\ \A i \in 1..Len(calls) :
                 /\ calls[i].request.requestPath.entityId = <<aEventPath.mEventId>>
                 /\ \E j \in declaring :
                       Visited(j).clusterId = calls[i].request.requestPath.cluster
           /\ (Done /\ visited # <<>> /\ Len(visited) \notin declaring) => result = FALSE

\* C9's case: a wildcard cluster id, the first cluster lacks the event and
\* gets no Check, the second declares it.
C9_Witness ==
    /\ Done /\ Precise /\ ~HasWildcardEventId(aEventPath)
    /\ Len(visited) = 2 /\ Len(calls) = 1
    /\ ~Declares(Visited(1), aEventPath.mEventId)
    /\ Visited(1).mask = CLUSTER_MASK_SERVER

\* C10: every Check is an event-read request naming the endpoint being
\* resolved and a cluster id of that endpoint, either with a concrete event as
\* entity at the privilege required to read that event, or with the entity
\* unset at View; the latter only without event lists and for a wildcard
\* event id, and a concrete event id always uses the former.
C10_RequestShape ==
    \A i \in 1..Len(calls) :
        LET r == calls[i].request.requestPath
            privilege == calls[i].request.privilege
        IN /\ r.requestType = kEventReadRequest
           /\ r.endpoint = aEndpoint
           /\ \E j \in 1..Len(ClustersOf(aEndpoint)) :
                 ClustersOf(aEndpoint)[j].clusterId = r.cluster
           /\ \/ /\ Len(r.entityId) = 1
                 /\ r.entityId[1] \in EventIds
                 /\ privilege = ForReadEvent(
                        ConcreteEventPath(aEndpoint, r.cluster, r.entityId[1]))
              \/ /\ r.entityId = <<>>
                 /\ privilege = kView
                 /\ ~Precise
                 /\ HasWildcardEventId(aEventPath)
           /\ ~HasWildcardEventId(aEventPath) => r.entityId = <<aEventPath.mEventId>>

\* C10's case: without event lists, a concrete event id, a Check was made.
C10_Witness ==
    /\ Done /\ ~Precise /\ ~HasWildcardEventId(aEventPath) /\ Len(calls) = 2

=============================================================================
